---------------------------- MODULE Spec2Model ----------------------------
(***************************************************************************)
(* Windowed convolution / pooling engine and the concatenation layer of    *)
(* the dnn package.                                                        *)
(*                                                                         *)
(* Tensors are numpy arrays: a shape and the elements in C (row-major)     *)
(* order.  Array elements are float32 in the code; they are modelled as    *)
(* exact rationals <<numerator, denominator>> in lowest terms, so rounding *)
(* is not modelled.  Axes and indices are 0-based as in numpy; TLA+        *)
(* sequences are 1-based, hence the +1 where a sequence is indexed.        *)
(***************************************************************************)
EXTENDS Integers, Sequences, FiniteSets, TLC

VARIABLES
    arithArgs,      \* arguments of the shape/padding arithmetic call
    arithRet,       \* value the call returned, NoValue before the call
    win,            \* configuration of a windowed layer and its input gradient shape
    winX,           \* the layer's input tensor, shape (C, H, W, B)
    winFwd,         \* window extraction of the forward pass (indices, vec_ip)
    winBwd,         \* scatter of the backward pass (dIp, local dX, returned value)
    pool,           \* a MaxPooling2D / AveragePooling2D layer object
    poolIn,         \* the tensor the pooling layer's input holds, shape (C, H, W, B)
    poolRet,        \* the last call on the pooling layer and what it returned
    concat,         \* a Concatenate layer object (axis, concatenated)
    catIn,          \* the tensors the layer's inputs hold, in input order
    catRet,         \* the last call on the Concatenate layer and its outcome
    convArgs,       \* arguments of a call of a convolution function
    convRet,        \* the last convolution call and its outcome
    batchArgs,      \* arguments of a generate_batches call
    batchGen        \* the generator it returned: position and batches yielded

\* The return slot of a call that has not been made.
NoValue == [fn |-> "none", val |-> 0]

(***************************************************************************)
(* Bounds of the model.                                                    *)
(***************************************************************************)
MaxArithDim == 5    \* largest input and kernel extent of the arithmetic calls
MaxStride == 2      \* largest stride
MaxPad == 2         \* largest explicit padding amount
MaxDim == 4         \* largest height and width of a layer input
MaxKernel == 2      \* largest kernel / pool height and width
MaxChannels == 2    \* largest number of channels
MaxBatch == 2       \* largest batch size
MaxElems == 18      \* largest number of elements of a padded layer input
MaxPoolElems == 16  \* the same, for the input of a pooling layer
MaxInputs == 3      \* largest number of inputs of a Concatenate layer
MaxCatDim == 2      \* largest extent of an axis of such an input
MaxCatElems == 8    \* largest number of elements of all its inputs together
MaxFilters == 2     \* largest number of filters (channel multiplier) of a kernel
MaxConvPad == 1     \* largest padding passed to a convolution function
MaxLifeElems == 6   \* largest padded input of a layer whose cache lifecycle is followed
MaxSamples == 5     \* largest number of samples handed to generate_batches
MaxBatchSize == 6   \* largest batch size asked of generate_batches
MaxConvElems == 10  \* largest number of elements of its padded input

PaddingModes == {"valid", "same", "full"}

(***************************************************************************)
(* Python numbers.                                                         *)
(***************************************************************************)
Abs(a) == IF a < 0 THEN -a ELSE a

RECURSIVE Gcd(_, _)
Gcd(a, b) == IF b = 0 THEN Abs(a) ELSE Gcd(b, a % b)

\* The rational num/den (den > 0) in lowest terms.
Rat(num, den) ==
    IF den = 1 THEN <<num, 1>>
    ELSE LET g == Gcd(num, den) IN <<num \div g, den \div g>>

RInt(k) == <<k, 1>>
RatAdd(x, y) == Rat(x[1] * y[2] + y[1] * x[2], x[2] * y[2])
RatMul(x, y) == Rat(x[1] * y[1], x[2] * y[2])
RatLess(x, y) == x[1] * y[2] < y[1] * x[2]

\* Sum of a sequence of numbers.
RatSum(seq) ==
    LET sum[i \in 0..Len(seq)] == IF i = 0 THEN RInt(0) ELSE RatAdd(sum[i - 1], seq[i])
    IN  sum[Len(seq)]

\* a / b on integers (true division), b > 0.
TrueDiv(a, b) == Rat(a, b)

\* int(x): truncation toward zero.
IntOf(x) == IF x[1] >= 0 THEN x[1] \div x[2] ELSE -((-x[1]) \div x[2])

\* math.ceil(x)
Ceil(x) == -((-x[1]) \div x[2])

\* math.floor(x)
Floor(x) == x[1] \div x[2]

(***************************************************************************)
(* conv_utils: shape and padding arithmetic.                               *)
(***************************************************************************)
\* Mutant: the padding is rounded down instead of up.
compute_conv_padding_floor(kernel_size, mode) ==
    IF mode = "same"
    THEN <<Floor(TrueDiv(kernel_size[1] - 1, 2)), Floor(TrueDiv(kernel_size[2] - 1, 2))>>
    ELSE <<0, 0>>

compute_conv_padding(kernel_size, mode) ==
    IF mode = "same"
    THEN <<Ceil(TrueDiv(kernel_size[1] - 1, 2)), Ceil(TrueDiv(kernel_size[2] - 1, 2))>>
    ELSE <<0, 0>>

\* Mutant: the quotient is rounded up instead of truncated.
compute_conv_output_dim_ceil(n, f, p, s) ==
    Ceil(RatAdd(TrueDiv(n - f + 2 * p, s), RInt(1)))

compute_conv_output_dim(n, f, p, s) ==
    IntOf(RatAdd(TrueDiv(n - f + 2 * p, s), RInt(1)))

(***************************************************************************)
(* numpy arrays: [shape, data] with data in C order.                       *)
(***************************************************************************)
Min(a, b) == IF a < b THEN a ELSE b
Max(a, b) == IF a > b THEN a ELSE b

\* Product of the entries of a shape.
Prod(shape) ==
    LET p[i \in 0..Len(shape)] == IF i = 0 THEN 1 ELSE p[i - 1] * shape[i]
    IN  p[Len(shape)]

\* Position in the data of the element at the 0-based multi-index idx.
RavelIndex(shape, idx) ==
    LET r[i \in 0..Len(shape)] == IF i = 0 THEN 0 ELSE r[i - 1] * shape[i] + idx[i]
    IN  r[Len(shape)]

\* The multi-index of the element at 0-based position flat of the data.
UnravelIndex(shape, flat) ==
    LET n == Len(shape)
        st[i \in 1..n] == IF i = n THEN 1 ELSE st[i + 1] * shape[i + 1]
    IN  [i \in 1..n |-> (flat \div st[i]) % shape[i]]

At(A, idx) == A.data[RavelIndex(A.shape, idx) + 1]

\* np.zeros(shape)
Zeros(shape) == [shape |-> shape, data |-> [i \in 1..Prod(shape) |-> RInt(0)]]

\* A.reshape(*shape); one entry of shape may be -1.
Reshape(A, shape) ==
    LET known == Prod([i \in 1..Len(shape) |-> IF shape[i] = -1 THEN 1 ELSE shape[i]])
    IN  [shape |-> [i \in 1..Len(shape) |->
                        IF shape[i] = -1 THEN Prod(A.shape) \div known ELSE shape[i]],
         data |-> A.data]

\* A negative axis counts from the end.
NormAxis(axis, ndim) == IF axis < 0 THEN axis + ndim ELSE axis

\* np.transpose(A, perm): axis i of the result is axis perm[i] of A.
Transpose(A, perm) ==
    LET n == Len(A.shape)
        inv == [j \in 1..n |-> CHOOSE i \in 1..n : perm[i] = j - 1]
        shape == [i \in 1..n |-> A.shape[perm[i] + 1]]
    IN  [shape |-> shape,
         data |-> [e \in 1..Prod(shape) |->
                      LET idx == UnravelIndex(shape, e - 1)
                      IN  At(A, [j \in 1..n |-> idx[inv[j]]])]]

\* np.swapaxes(A, a, b)
SwapAxes(A, a, b) ==
    LET n == Len(A.shape)
        x == NormAxis(a, n)
        y == NormAxis(b, n)
    IN  Transpose(A, [i \in 1..n |-> IF i - 1 = x THEN y
                                       ELSE IF i - 1 = y THEN x ELSE i - 1])

\* np.moveaxis(A, src, dst): the other axes keep their order.
MoveAxis(A, src, dst) ==
    LET n == Len(A.shape)
        x == NormAxis(src, n)
        y == NormAxis(dst, n)
        rest == [i \in 1..(n - 1) |-> IF i - 1 < x THEN i - 1 ELSE i]
    IN  Transpose(A, [i \in 1..n |-> IF i - 1 < y THEN rest[i]
                                       ELSE IF i - 1 = y THEN x ELSE rest[i - 1]])

\* The indices selected by the slice start:stop of an axis of length len.
SliceLo(start, len) == IF start < 0 THEN Max(start + len, 0) ELSE Min(start, len)
SliceLen(start, stop, len) == Max(SliceLo(stop, len) - SliceLo(start, len), 0)

\* A[..., r0:r1, c0:c1] for the two axes before the last (last2 = FALSE,
\* A[:, r0:r1, c0:c1] of a 4-d array) or the last two axes (last2 = TRUE,
\* which is also A[:, r0:r1, c0:c1] of a 3-d array).
SliceArea(A, r0, r1, c0, c1, last2) ==
    LET n == Len(A.shape)
        ar == IF last2 THEN n - 1 ELSE n - 2
        ac == ar + 1
        lo == [i \in 1..n |-> IF i = ar THEN SliceLo(r0, A.shape[ar])
                               ELSE IF i = ac THEN SliceLo(c0, A.shape[ac]) ELSE 0]
        shape == [i \in 1..n |-> IF i = ar THEN SliceLen(r0, r1, A.shape[ar])
                                  ELSE IF i = ac THEN SliceLen(c0, c1, A.shape[ac])
                                  ELSE A.shape[i]]
    IN  [shape |-> shape,
         data |-> [e \in 1..Prod(shape) |->
                      LET idx == UnravelIndex(shape, e - 1)
                      IN  At(A, [i \in 1..n |-> idx[i] + lo[i]])]]

\* A[:, k, ...]: the k-th entry of axis 1, the axis dropped.
TakeAxis1(A, k) ==
    LET n == Len(A.shape)
        shape == [i \in 1..(n - 1) |-> IF i = 1 THEN A.shape[1] ELSE A.shape[i + 1]]
    IN  [shape |-> shape,
         data |-> [e \in 1..Prod(shape) |->
                      LET idx == UnravelIndex(shape, e - 1)
                      IN  At(A, [i \in 1..n |-> IF i = 1 THEN idx[1]
                                                 ELSE IF i = 2 THEN k ELSE idx[i - 1]])]]

\* np.array(tuple of equally shaped arrays): stacked along a new leading axis.
Stack(arrays) ==
    LET cat[i \in 0..Len(arrays)] == IF i = 0 THEN <<>> ELSE cat[i - 1] \o arrays[i].data
    IN  [shape |-> <<Len(arrays)>> \o arrays[1].shape, data |-> cat[Len(arrays)]]

\* np.pad(X, ((0, 0), (pad_H, pad_H), (pad_W, pad_W), (0, 0))) of a 4-d array.
pad(X, pad_H, pad_W) ==
    LET shape == <<X.shape[1], X.shape[2] + 2 * pad_H, X.shape[3] + 2 * pad_W, X.shape[4]>>
    IN  [shape |-> shape,
         data |-> [e \in 1..Prod(shape) |->
                      LET idx == UnravelIndex(shape, e - 1)
                      IN  IF /\ idx[2] >= pad_H /\ idx[2] < pad_H + X.shape[2]
                             /\ idx[3] >= pad_W /\ idx[3] < pad_W + X.shape[3]
                          THEN At(X, <<idx[1], idx[2] - pad_H, idx[3] - pad_W, idx[4]>>)
                          ELSE RInt(0)]]

(***************************************************************************)
(* conv_utils: window origins, extraction and scatter.                     *)
(***************************************************************************)
\* Mutant: the loops are nested the other way round (column-major).
slice_idx_generator_colmajor(oH, oW, sH, sW) ==
    LET col(j) == [i \in 1..oH |-> <<(i - 1) * sH, j * sW>>]
        gen[j \in 0..Max(oW, 0)] == IF j = 0 THEN <<>> ELSE gen[j - 1] \o col(j - 1)
    IN  gen[Max(oW, 0)]

\* The pairs the generator yields, in order: for i in range(oH): for j in
\* range(oW): (i * sH, j * sW).
slice_idx_generator(oH, oW, sH, sW) ==
    LET row(i) == [j \in 1..oW |-> <<i * sH, (j - 1) * sW>>]
        gen[i \in 0..Max(oH, 0)] == IF i = 0 THEN <<>> ELSE gen[i - 1] \o row(i - 1)
    IN  gen[Max(oH, 0)]

vectorize_ip_for_conv(X, kernel_size, stride, output_size, reshape) ==
    LET indices == slice_idx_generator(output_size[1], output_size[2],
                                       stride[1], stride[2])
    IN  Stack([k \in 1..Len(indices) |->
                  Reshape(SliceArea(X, indices[k][1], indices[k][1] + kernel_size[1],
                                    indices[k][2], indices[k][2] + kernel_size[2],
                                    Len(X.shape) = 3),
                          reshape)])

\* Mutant: a window overwrites the region instead of adding to it.
AddArea_overwrite(dX, r, c, kH, kW, V) ==
    LET n == Len(dX.shape)
        r0 == SliceLo(r, dX.shape[n - 1])
        c0 == SliceLo(c, dX.shape[n])
        r1 == r0 + SliceLen(r, r + kH, dX.shape[n - 1])
        c1 == c0 + SliceLen(c, c + kW, dX.shape[n])
    IN  [shape |-> dX.shape,
         data |-> [e \in 1..Prod(dX.shape) |->
                      LET idx == UnravelIndex(dX.shape, e - 1)
                      IN  IF /\ idx[n - 1] >= r0 /\ idx[n - 1] < r1
                             /\ idx[n] >= c0 /\ idx[n] < c1
                          THEN At(V, [i \in 1..n |->
                                        IF i = n - 1 THEN idx[i] - r0
                                        ELSE IF i = n THEN idx[i] - c0
                                        ELSE idx[i]])
                          ELSE dX.data[e]]]

\* dX[..., r:r + kH, c:c + kW] += V
AddArea(dX, r, c, kH, kW, V) ==
    LET n == Len(dX.shape)
        r0 == SliceLo(r, dX.shape[n - 1])
        c0 == SliceLo(c, dX.shape[n])
        r1 == r0 + SliceLen(r, r + kH, dX.shape[n - 1])
        c1 == c0 + SliceLen(c, c + kW, dX.shape[n])
    IN  [shape |-> dX.shape,
         data |-> [e \in 1..Prod(dX.shape) |->
                      LET idx == UnravelIndex(dX.shape, e - 1)
                      IN  IF /\ idx[n - 1] >= r0 /\ idx[n - 1] < r1
                             /\ idx[n] >= c0 /\ idx[n] < c1
                          THEN RatAdd(dX.data[e],
                                      At(V, [i \in 1..n |->
                                               IF i = n - 1 THEN idx[i] - r0
                                               ELSE IF i = n THEN idx[i] - c0
                                               ELSE idx[i]]))
                          ELSE dX.data[e]]]

\* accumulate_dX_conv up to the end of its loop: the local dX before the
\* padding is stripped.
AccumulateLoop(dX_shape, output_size, dIp, stride, kernel_size, reshape) ==
    LET slice_idx == slice_idx_generator(output_size[1], output_size[2],
                                         stride[1], stride[2])
        dX[k \in 0..Len(slice_idx)] ==
            IF k = 0 THEN Zeros(dX_shape)
            ELSE AddArea(dX[k - 1], slice_idx[k][1], slice_idx[k][2],
                         kernel_size[1], kernel_size[2],
                         Reshape(TakeAxis1(dIp, k - 1), reshape))
    IN  dX[Len(slice_idx)]

\* accumulate_dX_conv from `if padding != (0, 0)` on, applied to the local dX.
StripPadding(dX, padding, moveaxis) ==
    LET stripped == IF padding # <<0, 0>>
                    THEN SliceArea(dX, padding[1], -padding[1],
                                   padding[2], -padding[2], TRUE)
                    ELSE dX
    IN  IF moveaxis THEN MoveAxis(stripped, 0, -1) ELSE stripped

accumulate_dX_conv(dX_shape, output_size, dIp, stride, kernel_size, reshape, padding, moveaxis) ==
    StripPadding(AccumulateLoop(dX_shape, output_size, dIp, stride, kernel_size, reshape),
                 padding, moveaxis)

\* Conv.output_area of a layer with the given input area, kernel, stride and
\* padding mode.
output_area(ip, kernel_size, stride, padding) ==
    LET pHW == compute_conv_padding(kernel_size, padding)
        oH == compute_conv_output_dim(ip[1], kernel_size[1], pHW[1], stride[1])
        oW == compute_conv_output_dim(ip[2], kernel_size[2], pHW[2], stride[2])
    IN  <<oH, oW>>

(***************************************************************************)
(* Specification of the arithmetic: the arguments are drawn at Init, one   *)
(* of the three functions is applied to them.                              *)
(***************************************************************************)
ArithArgs ==
    [ip : (1..MaxArithDim) \X (1..MaxArithDim),
     kernel_size : (1..MaxArithDim) \X (1..MaxArithDim),
     stride : (1..MaxStride) \X (1..MaxStride),
     p : 0..MaxPad,
     mode : PaddingModes]

arithVars == <<arithArgs, arithRet>>
winVars == <<win, winX, winFwd, winBwd>>
poolVars == <<pool, poolIn, poolRet>>
catVars == <<concat, catIn, catRet>>
convVars == <<convArgs, convRet>>
batchVars == <<batchArgs, batchGen>>
vars == <<arithVars, winVars, poolVars, catVars, convVars, batchVars>>

\* The components a specification does not exercise stay unconstructed.
ArithIdle == arithArgs = NoValue /\ arithRet = NoValue
WinIdle == win = NoValue /\ winX = NoValue /\ winFwd = NoValue /\ winBwd = NoValue
PoolIdle == pool = NoValue /\ poolIn = NoValue /\ poolRet = NoValue
CatIdle == concat = NoValue /\ catIn = NoValue /\ catRet = NoValue
ConvIdle == convArgs = NoValue /\ convRet = NoValue
BatchIdle == batchArgs = NoValue /\ batchGen = NoValue

InitArith ==
    /\ arithArgs \in ArithArgs
    /\ arithRet = NoValue
    /\ WinIdle
    /\ PoolIdle
    /\ CatIdle
    /\ ConvIdle
    /\ BatchIdle

CallComputeConvOutputDim ==
    /\ arithRet = NoValue
    /\ arithRet' = [fn |-> "compute_conv_output_dim",
                    val |-> compute_conv_output_dim(arithArgs.ip[1],
                                arithArgs.kernel_size[1], arithArgs.p,
                                arithArgs.stride[1])]
    /\ UNCHANGED <<arithArgs, winVars, poolVars, catVars, convVars, batchVars>>

CallComputeConvPadding ==
    /\ arithRet = NoValue
    /\ arithRet' = [fn |-> "compute_conv_padding",
                    val |-> compute_conv_padding(arithArgs.kernel_size, arithArgs.mode)]
    /\ UNCHANGED <<arithArgs, winVars, poolVars, catVars, convVars, batchVars>>

CallOutputArea ==
    /\ arithRet = NoValue
    /\ arithRet' = [fn |-> "output_area",
                    val |-> output_area(arithArgs.ip, arithArgs.kernel_size,
                                        arithArgs.stride, arithArgs.mode)]
    /\ UNCHANGED <<arithArgs, winVars, poolVars, catVars, convVars, batchVars>>

NextArith ==
    \/ CallComputeConvOutputDim
    \/ CallComputeConvPadding
    \/ CallOutputArea

SpecArith == InitArith /\ [][NextArith]_vars

\* The integer q with q <= a/s < q + 1.
FloorOfQuotient(a, s) ==
    CHOOSE q \in (-Abs(a) - 1)..Abs(a) : q * s <= a /\ a < (q + 1) * s

\* The integer c with c - 1 < a/s <= c.
CeilOfQuotient(a, s) ==
    CHOOSE c \in (-Abs(a))..(Abs(a) + 1) : (c - 1) * s < a /\ a <= c * s

OutputDimReturned ==
    arithRet.fn = "compute_conv_output_dim"

\* C3 as stated: for all positive n, f, s and p >= 0 the output dimension is
\* floor((n - f + 2p) / s) + 1.
C3_FloorFormulaEverywhere ==
    OutputDimReturned =>
        arithRet.val = FloorOfQuotient(arithArgs.ip[1] - arithArgs.kernel_size[1]
                                         + 2 * arithArgs.p, arithArgs.stride[1]) + 1

\* C3 amended: whenever the kernel fits the padded input (n + 2p >= f) the
\* output dimension is floor((n - f + 2p) / s) + 1.
C3_FloorFormulaWhenKernelFits ==
    (OutputDimReturned /\ arithArgs.ip[1] + 2 * arithArgs.p >= arithArgs.kernel_size[1]) =>
        arithRet.val = FloorOfQuotient(arithArgs.ip[1] - arithArgs.kernel_size[1]
                                         + 2 * arithArgs.p, arithArgs.stride[1]) + 1

\* A call whose kernel fits and does not tile the padded input evenly.
C3_Witness ==
    /\ OutputDimReturned
    /\ arithArgs.ip[1] + 2 * arithArgs.p > arithArgs.kernel_size[1]
    /\ arithArgs.stride[1] > 1
    /\ (arithArgs.ip[1] + 2 * arithArgs.p - arithArgs.kernel_size[1]) % arithArgs.stride[1] # 0
    /\ arithRet.val > 1

PaddingReturned == arithRet.fn = "compute_conv_padding"
OutputAreaReturned == arithRet.fn = "output_area"

PaddingAsDocumented ==
    PaddingReturned =>
        /\ arithArgs.mode = "same" =>
                arithRet.val = <<CeilOfQuotient(arithArgs.kernel_size[1] - 1, 2),
                                 CeilOfQuotient(arithArgs.kernel_size[2] - 1, 2)>>
        /\ arithArgs.mode = "valid" => arithRet.val = <<0, 0>>

SameAtStrideOne ==
    /\ OutputAreaReturned
    /\ arithArgs.mode = "same"
    /\ arithArgs.stride = <<1, 1>>

\* C5 as stated: `same` padding is ceil((k-1)/2) per dimension and at stride 1
\* the output dimension equals the input dimension for every kernel size;
\* `valid` padding is (0, 0).
C5_SameKeepsSizeForEveryKernel ==
    /\ PaddingAsDocumented
    /\ SameAtStrideOne => arithRet.val = arithArgs.ip

\* 0 for an odd kernel extent, 1 for an even one.
EvenExcess(k) == IF k % 2 = 0 THEN 1 ELSE 0

\* C5 amended: `same` padding is ceil((k-1)/2) per dimension and `valid` is
\* (0, 0); at stride 1 the output dimension under `same` equals the input
\* dimension for an odd kernel extent and the input dimension plus one for an
\* even kernel extent.
C5_SameKeepsSizeForOddKernel ==
    /\ PaddingAsDocumented
    /\ SameAtStrideOne =>
            arithRet.val = <<arithArgs.ip[1] + EvenExcess(arithArgs.kernel_size[1]),
                             arithArgs.ip[2] + EvenExcess(arithArgs.kernel_size[2])>>

\* `same` at stride 1 with one odd (> 1) and one even kernel extent.
C5_Witness ==
    /\ SameAtStrideOne
    /\ arithArgs.kernel_size = <<3, 2>>
    /\ arithRet.val = <<arithArgs.ip[1], arithArgs.ip[2] + 1>>

(***************************************************************************)
(* Specification of window extraction and gradient scatter: a convolution  *)
(* layer's geometry and input are drawn at Init; the forward pass extracts *)
(* the windows of the padded input, the backward pass scatters a           *)
(* per-window gradient with accumulate_dX_conv as Conv.backprop_inputs     *)
(* calls it.                                                               *)
(***************************************************************************)
LayerModes == {"valid", "same"}

\* Conv.padded_shape
padded_shape(ip, kernel_size, padding) ==
    LET pHW == compute_conv_padding(kernel_size, padding)
    IN  <<ip[1] + 2 * pHW[1], ip[2] + 2 * pHW[2]>>

WinConfigs ==
    {c \in [C : 1..MaxChannels, B : 1..MaxBatch,
            ip : (1..MaxDim) \X (1..MaxDim),
            kernel_size : (1..MaxKernel) \X (1..MaxKernel),
            stride : (1..MaxStride) \X (1..MaxStride),
            padding : LayerModes] :
        LET ps == padded_shape(c.ip, c.kernel_size, c.padding)
        IN  /\ ps[1] >= c.kernel_size[1]
            /\ ps[2] >= c.kernel_size[2]
            /\ c.C * c.B * ps[1] * ps[2] <= MaxElems}

\* A tensor whose elements count up from 1 (sign = 1) or down from -1.
Ramp(shape, sign) ==
    [shape |-> shape, data |-> [i \in 1..Prod(shape) |-> RInt(sign * i)]]

Ones(shape) ==
    [shape |-> shape, data |-> [i \in 1..Prod(shape) |-> RInt(1)]]

InitWin ==
    /\ win \in WinConfigs
    /\ winX = Ramp(<<win.C, win.ip[1], win.ip[2], win.B>>, 1)
    /\ winFwd = NoValue
    /\ winBwd = NoValue
    /\ ArithIdle
    /\ PoolIdle
    /\ CatIdle
    /\ ConvIdle
    /\ BatchIdle

WinPadding == compute_conv_padding(win.kernel_size, win.padding)
WinOutputArea == output_area(win.ip, win.kernel_size, win.stride, win.padding)
WinCount == WinOutputArea[1] * WinOutputArea[2]
WinPatchLen == win.C * win.kernel_size[1] * win.kernel_size[2]

\* Forward: the windows of the padded input, batch axis moved to the front
\* (the vectorized input a convolution retains).
WinForward ==
    /\ winFwd.fn = "none"
    /\ winFwd' =
          [fn |-> "vectorize_ip_for_conv",
           indices |-> slice_idx_generator(WinOutputArea[1], WinOutputArea[2],
                                           win.stride[1], win.stride[2]),
           vec_ip |-> MoveAxis(
                        vectorize_ip_for_conv(pad(winX, WinPadding[1], WinPadding[2]),
                                              win.kernel_size, win.stride, WinOutputArea,
                                              <<-1, win.B>>),
                        -1, 0)]
    /\ UNCHANGED <<win, winX, winBwd, arithVars, poolVars, catVars, convVars, batchVars>>

\* The per-window gradients handed to the scatter, shape (B, windows, C*kH*kW).
WinGradients ==
    {Ones(<<win.B, WinCount, WinPatchLen>>),
     Ramp(<<win.B, WinCount, WinPatchLen>>, 1),
     winFwd.vec_ip}

\* Backward: Conv.backprop_inputs scatters the gradient of the vectorized input.
WinBackward ==
    /\ winFwd.fn # "none"
    /\ winBwd.fn = "none"
    /\ \E dIp \in WinGradients :
          LET ps == padded_shape(win.ip, win.kernel_size, win.padding)
              dX == AccumulateLoop(<<win.B, win.C, ps[1], ps[2]>>, WinOutputArea, dIp,
                                   win.stride, win.kernel_size,
                                   <<-1, win.C, win.kernel_size[1], win.kernel_size[2]>>)
          IN  winBwd' =
                [fn |-> "accumulate_dX_conv",
                 dIp |-> dIp,
                 slice_idx |-> slice_idx_generator(WinOutputArea[1], WinOutputArea[2],
                                                   win.stride[1], win.stride[2]),
                 dX |-> dX,
                 ret |-> StripPadding(dX, WinPadding, TRUE)]
    /\ UNCHANGED <<win, winX, winFwd, arithVars, poolVars, catVars, convVars, batchVars>>

NextWin ==
    \/ WinForward
    \/ WinBackward

SpecWin == InitWin /\ [][NextWin]_vars

ScatterDone == winBwd.fn = "accumulate_dX_conv"
ExtractDone == winFwd.fn = "vectorize_ip_for_conv"

\* The geometry the formulas below refer to.
WinGeom ==
    [oH |-> WinOutputArea[1], oW |-> WinOutputArea[2],
     sH |-> win.stride[1], sW |-> win.stride[2],
     kH |-> win.kernel_size[1], kW |-> win.kernel_size[2],
     pH |-> WinPadding[1], pW |-> WinPadding[2]]

\* Origin of window k (0-based) in row-major order.
Origin(g, k) == <<(k \div g.oW) * g.sH, (k % g.oW) * g.sW>>

\* Window k covers the position (r, c) of the padded tensor.
Covers(g, k, r, c) ==
    /\ (k \div g.oW) * g.sH <= r /\ r < (k \div g.oW) * g.sH + g.kH
    /\ (k % g.oW) * g.sW <= c /\ c < (k % g.oW) * g.sW + g.kW

\* Offset of (channel ch, position (r, c)) in the flattened patch of window k.
PatchOffset(g, k, ch, r, c) ==
    ch * g.kH * g.kW + (r - (k \div g.oW) * g.sH) * g.kW + (c - (k % g.oW) * g.sW)

\* Sum of the contributions of the windows covering position idx = (b, ch, r, c).
CoveringSum(g, dIp, idx) ==
    RatSum([k \in 1..(g.oH * g.oW) |->
               IF Covers(g, k - 1, idx[3], idx[4])
               THEN At(dIp, <<idx[1], k - 1, PatchOffset(g, k - 1, idx[2], idx[3], idx[4])>>)
               ELSE RInt(0)])

CoveringCount(g, r, c) == Cardinality({k \in 0..(g.oH * g.oW - 1) : Covers(g, k, r, c)})

\* C1: before the padding is stripped, every position of the gradient tensor
\* holds the sum of the contributions of all windows covering it, and 0 when no
\* window covers it.
C1_ScatterIsAdditive ==
    ScatterDone =>
        LET g == WinGeom
            dX == winBwd.dX
            dIp == winBwd.dIp
        IN  \A i \in 1..Len(dX.data) :
                dX.data[i] = CoveringSum(g, dIp, UnravelIndex(dX.shape, i - 1))

\* Overlapping windows (stride < kernel both ways), distinct contributions, a
\* position covered by four windows and, next to it, the accumulated values.
C1_Witness ==
    /\ ScatterDone
    /\ win.stride[1] < win.kernel_size[1] /\ win.stride[2] < win.kernel_size[2]
    /\ winBwd.dIp = Ramp(winBwd.dIp.shape, 1)
    /\ \E r \in 0..(winBwd.dX.shape[3] - 1), c \in 0..(winBwd.dX.shape[4] - 1) :
          /\ CoveringCount(WinGeom, r, c) = 4
          /\ At(winBwd.dX, <<0, 0, r, c>>)[1] > Prod(winBwd.dIp.shape)

\* C2 as stated: for every padding pair the returned gradient has the extent
\* of the unpadded input, the padding removed symmetrically on each side.
C2_StripRestoresInputExtent ==
    ScatterDone =>
        LET g == WinGeom
            ret == winBwd.ret
            dX == winBwd.dX
        IN  /\ ret.shape = <<win.C, win.ip[1], win.ip[2], win.B>>
            /\ \A i \in 1..Len(ret.data) :
                  LET idx == UnravelIndex(ret.shape, i - 1)
                  IN  ret.data[i] = At(dX, <<idx[4], idx[1], idx[2] + g.pH, idx[3] + g.pW>>)

\* C4: the generator yields oH*oW origins in row-major order, the k-th being
\* ((k div oW) * sH, (k mod oW) * sW); the k-th extracted patch is the window
\* at that origin, the scatter regenerates the same sequence, and scattering
\* the patches back multiplies each padded input element by the number of
\* windows covering it.
C4_OriginsRowMajorBothWays ==
    LET g == WinGeom
        Xpad == pad(winX, g.pH, g.pW)
        kk == g.kH * g.kW
    IN  /\ ExtractDone =>
              /\ Len(winFwd.indices) = g.oH * g.oW
              /\ \A k \in 0..(Len(winFwd.indices) - 1) : winFwd.indices[k + 1] = Origin(g, k)
              /\ \A i \in 1..Len(winFwd.vec_ip.data) :
                    LET idx == UnravelIndex(winFwd.vec_ip.shape, i - 1)
                        o == Origin(g, idx[2])
                    IN  winFwd.vec_ip.data[i] =
                            At(Xpad, <<idx[3] \div kk, o[1] + (idx[3] % kk) \div g.kW,
                                       o[2] + (idx[3] % g.kW), idx[1]>>)
        /\ ScatterDone =>
              /\ winBwd.slice_idx = winFwd.indices
              /\ winBwd.dIp = winFwd.vec_ip =>
                    \A i \in 1..Len(winBwd.dX.data) :
                        LET idx == UnravelIndex(winBwd.dX.shape, i - 1)
                        IN  winBwd.dX.data[i] =
                                RatMul(RInt(CoveringCount(g, idx[3], idx[4])),
                                       At(Xpad, <<idx[2], idx[3], idx[4], idx[1]>>))

\* Several rows and columns of windows with different strides, overlapping,
\* the patches extracted and scattered back.
C4_Witness ==
    /\ ScatterDone
    /\ WinOutputArea[1] >= 2 /\ WinOutputArea[2] >= 2
    /\ win.stride[1] # win.stride[2]
    /\ win.kernel_size = <<2, 2>>
    /\ winBwd.dIp = winFwd.vec_ip
    /\ winFwd.indices[WinOutputArea[2] + 1] = <<win.stride[1], 0>>

(***************************************************************************)
(* Pooling layers.  MaxPooling2D imports pad and vectorize_for_conv from   *)
(* the layers.utils package; they are modelled by conv_utils.pad (the      *)
(* padded array, _padded_shape being its height and width) and             *)
(* conv_utils.vectorize_ip_for_conv.                                       *)
(***************************************************************************)
\* Mutant: a later equal element replaces the current maximum (last maximum).
ArgMaxRow_last(A, row) ==
    LET p == A.shape[Len(A.shape)]
        best[j \in 0..(p - 1)] ==
            IF j = 0 THEN 0
            ELSE LET b == best[j - 1]
                 IN  IF ~RatLess(A.data[row * p + j + 1], A.data[row * p + b + 1])
                     THEN j ELSE b
    IN  best[p - 1]

\* ip.argmax(axis=-1) at one index of the leading axes (row of the 2-d view):
\* the index of the first maximum along the last axis.
ArgMaxRow(A, row) ==
    LET p == A.shape[Len(A.shape)]
        best[j \in 0..(p - 1)] ==
            IF j = 0 THEN 0
            ELSE LET b == best[j - 1]
                 IN  IF RatLess(A.data[row * p + b + 1], A.data[row * p + j + 1])
                     THEN j ELSE b
    IN  best[p - 1]

\* MaxPooling2D._get_pool_outputs: <<pooled, mask>>.
max_get_pool_outputs(layer, ip) ==
    LET n == Len(ip.shape)
        lead == SubSeq(ip.shape, 1, n - 1)
        flat == Prod(lead)
        p_area == ip.shape[n]
        max_idx == [r \in 1..flat |-> ArgMaxRow(ip, r - 1)]
        maximums == [shape |-> lead,
                     data |-> [r \in 1..flat |-> ip.data[(r - 1) * p_area + max_idx[r] + 1]]]
        mask == [shape |-> ip.shape,
                 data |-> [e \in 1..(flat * p_area) |->
                              (e - 1) % p_area = max_idx[(e - 1) \div p_area + 1]]]
    IN  <<Reshape(SwapAxes(maximums, 0, -1),
                  <<layer.windows, layer.out_H, layer.out_W, -1>>),
          mask>>

\* AveragePooling2D._get_pool_outputs: <<pooled, distributed>>.
avg_get_pool_outputs(layer, ip) ==
    LET n == Len(ip.shape)
        lead == SubSeq(ip.shape, 1, n - 1)
        p_area == ip.shape[n]
        row(r) == [j \in 1..p_area |-> ip.data[(r - 1) * p_area + j]]
        averages == [shape |-> lead,
                     data |-> [r \in 1..Prod(lead) |->
                                  LET t == RatSum(row(r)) IN Rat(t[1], t[2] * p_area)]]
        distributed == [shape |-> <<1, 1, 1, p_area>>,
                        data |-> [j \in 1..p_area |-> Rat(1, p_area)]]
    IN  <<Reshape(SwapAxes(averages, 0, -1),
                  <<layer.windows, layer.out_H, layer.out_W, -1>>),
          distributed>>

\* share * dA[..., None] with numpy broadcasting; the elements of a boolean
\* mask count as 1 and 0.
ShareTimes(share, dA, isMask) ==
    LET n == Len(share.shape)
        d == Reshape(dA, dA.shape \o <<1>>)
        shape == [i \in 1..n |-> Max(share.shape[i], d.shape[i])]
    IN  [shape |-> shape,
         data |-> [e \in 1..Prod(shape) |->
                      LET idx == UnravelIndex(shape, e - 1)
                          sv == At(share, [i \in 1..n |-> IF share.shape[i] = 1 THEN 0 ELSE idx[i]])
                          dv == At(d, [i \in 1..n |-> IF d.shape[i] = 1 THEN 0 ELSE idx[i]])
                      IN  IF isMask THEN (IF sv THEN dv ELSE RInt(0)) ELSE RatMul(sv, dv)]]

PoolKinds == {"max", "avg"}

\* The pooling layers and input extents exercised; both axes share one stride.
PoolConfigs ==
    {c \in [kind : PoolKinds, C : 1..MaxChannels, B : 1..MaxBatch,
            ip : (1..MaxDim) \X (1..MaxDim),
            pool_size : (1..MaxKernel) \X (1..MaxKernel),
            stride : {<<s, s>> : s \in 1..MaxStride},
            padding : LayerModes] :
        LET ps == padded_shape(c.ip, c.pool_size, c.padding)
        IN  /\ ps[1] >= c.pool_size[1]
            /\ ps[2] >= c.pool_size[2]
            /\ c.C * c.B * ps[1] * ps[2] <= MaxPoolElems}

\* MaxPooling2D.__init__
NewPool(c) ==
    LET pHW == compute_conv_padding(c.pool_size, c.padding)
    IN  [kind |-> c.kind,
         pool_size |-> c.pool_size, stride |-> c.stride, padding |-> c.padding,
         p_H |-> pHW[1], p_W |-> pHW[2],
         windows |-> c.C, ip_H |-> c.ip[1], ip_W |-> c.ip[2],
         out_H |-> compute_conv_output_dim(c.ip[1], c.pool_size[1], pHW[1], c.stride[1]),
         out_W |-> compute_conv_output_dim(c.ip[2], c.pool_size[2], pHW[2], c.stride[2]),
         pooled |-> NoValue, padded_shape |-> NoValue, dX_share |-> NoValue]

\* A tensor with positive and negative elements and repeated values.
Mixed(shape) ==
    [shape |-> shape, data |-> [i \in 1..Prod(shape) |-> RInt(((5 * i) % 7) - 3)]]

\* The tensors the input layer may hold.
PoolInputs(c) ==
    LET shape == <<c.C, c.ip[1], c.ip[2], c.B>>
    IN  IF c.kind = "max"
        THEN {Ones(shape), Mixed(shape)}
        ELSE {Mixed(shape)}

InitPool ==
    /\ \E c \in PoolConfigs :
          /\ pool = NewPool(c)
          /\ poolIn \in PoolInputs(c)
    /\ poolRet = NoValue
    /\ ArithIdle
    /\ WinIdle
    /\ CatIdle
    /\ ConvIdle
    /\ BatchIdle

\* MaxPooling2D._pool followed by the assignment of forward_step: the layer
\* after forward_step on the input X.
forward_step(layer, X) ==
    LET Xp == pad(X, layer.p_H, layer.p_W)
        vec == vectorize_ip_for_conv(Xp, layer.pool_size, layer.stride,
                   <<layer.out_H, layer.out_W>>,
                   <<layer.windows, layer.pool_size[1] * layer.pool_size[2], Xp.shape[4]>>)
        ip == MoveAxis(vec, -1, 0)
        out == IF layer.kind = "max" THEN max_get_pool_outputs(layer, ip)
               ELSE avg_get_pool_outputs(layer, ip)
    IN  [layer EXCEPT !.padded_shape = <<Xp.shape[2], Xp.shape[3]>>,
                      !.dX_share = out[2],
                      !.pooled = out[1]]

PoolForward ==
    /\ pool' = forward_step(pool, poolIn)
    /\ poolRet' = [fn |-> "forward_step", val |-> pool'.pooled]
    /\ UNCHANGED <<poolIn, arithVars, winVars, catVars, convVars, batchVars>>

\* BaseLayer.reset_attrs: every attribute named in MaxPooling2D.reset is
\* discarded.
reset_attrs(layer) ==
    [layer EXCEPT !.pooled = NoValue, !.dX_share = NoValue]

\* The layer as MaxPooling2D.__init__ leaves its cache.
NewPoolOf(layer) ==
    [layer EXCEPT !.pooled = NoValue, !.padded_shape = NoValue, !.dX_share = NoValue]

\* The output gradients handed to backprop_step, shape (C, out_H, out_W, B).
PoolGradients ==
    IF pool.kind = "max"
    THEN {Ramp(pool.pooled.shape, 1)}
    ELSE {Ones(pool.pooled.shape), Ramp(pool.pooled.shape, 1)}

\* MaxPooling2D.backprop_step with requires_dX set.
PoolBackprop ==
    /\ pool.dX_share # NoValue
    /\ \E dA0 \in PoolGradients :
          LET dA == Reshape(SwapAxes(dA0, 0, -1), <<dA0.shape[4], -1, pool.windows>>)
              dX == accumulate_dX_conv(
                        <<dA.shape[1], pool.windows, pool.padded_shape[1], pool.padded_shape[2]>>,
                        <<pool.out_H, pool.out_W>>,
                        ShareTimes(pool.dX_share, dA, pool.kind = "max"),
                        pool.stride, pool.pool_size,
                        <<-1, pool.windows, pool.pool_size[1], pool.pool_size[2]>>,
                        <<pool.p_H, pool.p_W>>, TRUE)
          IN  /\ poolRet' = [fn |-> "backprop_step", requires_dX |-> TRUE,
                             raised |-> "None", dA |-> dA0,
                             share |-> pool.dX_share, val |-> dX]
              /\ pool' = reset_attrs(pool)
    /\ UNCHANGED <<poolIn, arithVars, winVars, catVars, convVars, batchVars>>

NextPool ==
    \/ PoolForward
    \/ PoolBackprop

SpecPool == InitPool /\ [][NextPool]_vars

(***************************************************************************)
(* The cache of a pooling layer over any sequence of calls: the input      *)
(* layer produces new outputs, forward_step and backprop_step are called   *)
(* in any order, and requires_dX is either value at each backprop_step.    *)
(***************************************************************************)
PoolLifeConfigs ==
    {c \in PoolConfigs :
        LET ps == padded_shape(c.ip, c.pool_size, c.padding)
        IN  c.C * c.B * ps[1] * ps[2] <= MaxLifeElems}

\* The tensors the input layer may produce for a layer fed with X.
PoolFeeds(X) == {Ones(X.shape), Mixed(X.shape)}

InitPoolLife ==
    /\ \E c \in PoolLifeConfigs :
          /\ pool = NewPool(c)
          /\ poolIn \in PoolFeeds(Mixed(<<c.C, c.ip[1], c.ip[2], c.B>>))
    /\ poolRet = NoValue
    /\ ArithIdle
    /\ WinIdle
    /\ CatIdle
    /\ ConvIdle
    /\ BatchIdle

\* The input layer holds a new output.
PoolFeed ==
    /\ \E X \in PoolFeeds(poolIn) \ {poolIn} : poolIn' = X
    /\ UNCHANGED <<pool, poolRet, arithVars, winVars, catVars, convVars, batchVars>>

\* The output gradient handed to backprop_step whether or not a forward pass
\* preceded it.
PoolLifeGradient ==
    Ramp(<<pool.windows, pool.out_H, pool.out_W, poolIn.shape[4]>>, 1)

\* Mutant: the short-circuit returns without discarding the cache.
backprop_step_short_circuit_keep(layer) ==
    [layer |-> layer, val |-> NoValue]

\* The branch of backprop_step taken when requires_dX is False.
backprop_step_short_circuit(layer) ==
    [layer |-> reset_attrs(layer), val |-> NoValue]

\* backprop_step of a layer that needs no input gradient.
PoolBackpropNoDX ==
    /\ LET r == backprop_step_short_circuit(pool)
       IN  /\ pool' = r.layer
           /\ poolRet' = [fn |-> "backprop_step", requires_dX |-> FALSE,
                          raised |-> "None", dA |-> PoolLifeGradient,
                          share |-> pool.dX_share, val |-> r.val]
    /\ UNCHANGED <<poolIn, arithVars, winVars, catVars, convVars, batchVars>>

\* backprop_step with requires_dX set on a layer whose cache is None: the
\* product of None and dA raises TypeError before anything is assigned.
PoolBackpropNoCache ==
    /\ pool.dX_share = NoValue
    /\ poolRet' = [fn |-> "backprop_step", requires_dX |-> TRUE,
                   raised |-> "TypeError", dA |-> PoolLifeGradient,
                   share |-> pool.dX_share, val |-> NoValue]
    /\ UNCHANGED <<pool, poolIn, arithVars, winVars, catVars, convVars, batchVars>>

NextPoolLife ==
    \/ PoolFeed
    \/ PoolForward
    \/ PoolBackprop
    \/ PoolBackpropNoDX
    \/ PoolBackpropNoCache

SpecPoolLife == InitPoolLife /\ [][NextPoolLife]_vars

PoolForwardDone == pool.dX_share # NoValue
PoolBackpropDone ==
    /\ poolRet.fn = "backprop_step"
    /\ poolRet.requires_dX
    /\ poolRet.raised = "None"

PoolGeom ==
    [oH |-> pool.out_H, oW |-> pool.out_W,
     sH |-> pool.stride[1], sW |-> pool.stride[2],
     kH |-> pool.pool_size[1], kW |-> pool.pool_size[2],
     pH |-> pool.p_H, pW |-> pool.p_W]

\* The values of window k of channel ch and batch element b in scan order.
WindowValues(g, Xpad, b, k, ch) ==
    LET o == Origin(g, k)
    IN  [j \in 0..(g.kH * g.kW - 1) |->
            At(Xpad, <<ch, o[1] + (j \div g.kW), o[2] + (j % g.kW), b>>)]

\* v[j] is the first maximum of v.
FirstMaximum(v, j) ==
    /\ \A i \in DOMAIN v : ~RatLess(v[j], v[i])
    /\ \A i \in DOMAIN v : i < j => RatLess(v[i], v[j])

IsRecordedArgmax(g, mask, ch, r, c, b) ==
    \E k \in 0..(g.oH * g.oW - 1) :
        /\ Covers(g, k, r + g.pH, c + g.pW)
        /\ At(mask, <<b, k, ch, PatchOffset(g, k, 0, r + g.pH, c + g.pW)>>)

CoveringShares(g, dA, ch, r, c, b) ==
    RatSum([k \in 1..(g.oH * g.oW) |->
               IF Covers(g, k - 1, r + g.pH, c + g.pW)
               THEN RatMul(At(dA, <<ch, (k - 1) \div g.oW, (k - 1) % g.oW, b>>),
                           Rat(1, g.kH * g.kW))
               ELSE RInt(0)])

CatAxes == {-2, -1, 0, 1}

\* The tensor fed to input i (1-based): distinct values in every input.
CatTensor(i, shape) ==
    [shape |-> shape, data |-> [e \in 1..Prod(shape) |-> RInt(10 * i + e)]]

\* MultiInputBaseLayer.input_shape(): the shapes of the inputs, in order.
input_shape(ins) == [i \in 1..Len(ins) |-> ins[i].shape]

\* Concatenate._get_axis_excluded_shapes: every shape without the entries
\* whose (non-negative) position equals axis.
get_axis_excluded_shapes(shapes, axis) ==
    [s \in 1..Len(shapes) |->
        LET shape == shapes[s]
            kept[i \in 0..Len(shape)] ==
                IF i = 0 THEN <<>>
                ELSE IF i - 1 # axis THEN Append(kept[i - 1], shape[i])
                ELSE kept[i - 1]
        IN  kept[Len(shape)]]

\* Concatenate._validate_same_shape: "ValueError" when raised, else "None".
validate_same_shape(shapes, axis) ==
    LET excluded == get_axis_excluded_shapes(shapes, axis)
        first_shape == excluded[1]
    IN  IF \E s \in 2..Len(excluded) : excluded[s] # first_shape
        THEN "ValueError" ELSE "None"

\* np.concatenate(arrays, axis=axis) of arrays that agree off the axis.
np_concatenate(arrays, axis) ==
    LET n == Len(arrays[1].shape)
        ax == NormAxis(axis, n) + 1
        cum[j \in 0..Len(arrays)] ==
            IF j = 0 THEN 0 ELSE cum[j - 1] + arrays[j].shape[ax]
        shape == [i \in 1..n |-> IF i = ax THEN cum[Len(arrays)] ELSE arrays[1].shape[i]]
    IN  [shape |-> shape,
         data |-> [e \in 1..Prod(shape) |->
                      LET idx == UnravelIndex(shape, e - 1)
                          j == CHOOSE k \in 1..Len(arrays) :
                                   cum[k - 1] <= idx[ax] /\ idx[ax] < cum[k]
                      IN  At(arrays[j], [i \in 1..n |->
                                            IF i = ax THEN idx[i] - cum[j - 1] ELSE idx[i]])]]

\* Concatenate._split_indices: running sums of the first n - 1 extents.
split_indices(shapes, axis) ==
    LET ax == NormAxis(axis, Len(shapes[1])) + 1
        running_sum[j \in 1..(Len(shapes) - 1)] ==
            IF j = 1 THEN shapes[1][ax] ELSE running_sum[j - 1] + shapes[j][ax]
    IN  [j \in 1..(Len(shapes) - 1) |-> running_sum[j]]

\* np.split(grad, indices_or_sections=indices, axis=axis): the sections
\* [0:i1], [i1:i2], ..., [ik:], each clipped to the extent of the axis.
np_split(grad, indices, axis) ==
    LET n == Len(grad.shape)
        ax == NormAxis(axis, n) + 1
        dim == grad.shape[ax]
        m == Len(indices)
        lo(j) == IF j = 1 THEN 0 ELSE Min(indices[j - 1], dim)
        hi(j) == IF j = m + 1 THEN dim ELSE Min(indices[j], dim)
    IN  [j \in 1..(m + 1) |->
            LET shape == [i \in 1..n |-> IF i = ax THEN Max(0, hi(j) - lo(j))
                                                   ELSE grad.shape[i]]
            IN  [shape |-> shape,
                 data |-> [e \in 1..Prod(shape) |->
                              LET idx == UnravelIndex(shape, e - 1)
                              IN  At(grad, [i \in 1..n |->
                                               IF i = ax THEN idx[i] + lo(j) ELSE idx[i]])]]]

\* The tensors fed to n inputs of declared extents d, with batch sizes b.
CatFeed(d, b) == [i \in 1..Len(d) |-> CatTensor(i, <<d[i], b[i]>>)]

CatSize(ins) == RatSum([i \in 1..Len(ins) |-> RInt(Prod(ins[i].shape))])[1]

\* Concatenate.__init__ did not raise on the declared shapes (d, None); the
\* inputs then hold their first tensors.
InitConcat ==
    /\ \E axis \in CatAxes, n \in 2..MaxInputs :
          \E d \in [1..n -> 1..MaxCatDim], b \in [1..n -> 1..MaxCatDim] :
              /\ validate_same_shape([i \in 1..n |-> <<d[i], NoValue>>], axis) = "None"
              /\ CatSize(CatFeed(d, b)) <= MaxCatElems
              /\ concat = [axis |-> axis, concatenated |-> NoValue]
              /\ catIn = CatFeed(d, b)
    /\ catRet = NoValue
    /\ ArithIdle
    /\ WinIdle
    /\ PoolIdle
    /\ ConvIdle
    /\ BatchIdle

\* The last input is fed a tensor of another batch size.
CatSetInput ==
    /\ \E b \in 1..MaxCatDim :
          LET n == Len(catIn)
              fed == [catIn EXCEPT ![n] = CatTensor(n, <<catIn[n].shape[1], b>>)]
          IN  /\ fed # catIn
              /\ CatSize(fed) <= MaxCatElems
              /\ catIn' = fed
    /\ UNCHANGED <<concat, catRet, arithVars, winVars, poolVars, convVars, batchVars>>

\* Concatenate.forward_step
CatForward ==
    /\ IF validate_same_shape(input_shape(catIn), concat.axis) = "ValueError"
       THEN /\ catRet' = [fn |-> "forward_step", inputs |-> catIn,
                          before |-> concat.concatenated,
                          raised |-> "ValueError", val |-> NoValue]
            /\ concat' = concat
       ELSE LET concatenated == np_concatenate(catIn, concat.axis)
            IN  /\ concat' = [concat EXCEPT !.concatenated = concatenated]
                /\ catRet' = [fn |-> "forward_step", inputs |-> catIn,
                              before |-> concat.concatenated,
                              raised |-> "None", val |-> concatenated]
    /\ UNCHANGED <<catIn, arithVars, winVars, poolVars, convVars, batchVars>>

\* Concatenate.backprop_inputs on the gradient of the layer's output.
CatBackprop ==
    /\ concat.concatenated # NoValue
    /\ LET grad == concat.concatenated
           indices == split_indices(input_shape(catIn), concat.axis)
       IN  catRet' = [fn |-> "backprop_inputs", inputs |-> catIn, grad |-> grad,
                      indices |-> indices,
                      val |-> np_split(grad, indices, concat.axis)]
    /\ UNCHANGED <<concat, catIn, arithVars, winVars, poolVars, convVars, batchVars>>

NextConcat ==
    \/ CatSetInput
    \/ CatForward
    \/ CatBackprop

SpecConcat == InitConcat /\ [][NextConcat]_vars

ForwardCalled == catRet.fn = "forward_step"
SplitCalled == catRet.fn = "backprop_inputs"

\* Some shape differs from the first on an axis other than the
\* concatenation axis (a negative axis counting from the end).
DiffersOffAxis(shapes, axis) ==
    LET ax == NormAxis(axis, Len(shapes[1])) + 1
    IN  \E s \in 2..Len(shapes) :
            \/ Len(shapes[s]) # Len(shapes[1])
            \/ \E i \in 1..Len(shapes[1]) : i # ax /\ shapes[s][i] # shapes[1][i]

\* backprop_inputs was applied to the tensor forward_step produced from the
\* inputs the layer holds.
RoundTrip ==
    /\ SplitCalled
    /\ validate_same_shape(input_shape(catRet.inputs), concat.axis) = "None"
    /\ catRet.grad = np_concatenate(catRet.inputs, concat.axis)

\* The split boundaries are the cumulative extents of the first n - 1 inputs.
CumulativeBoundaries(indices, ins, axis) ==
    LET ax == NormAxis(axis, Len(ins[1].shape)) + 1
    IN  /\ Len(indices) = Len(ins) - 1
        /\ \A j \in 1..Len(indices) :
              indices[j] = RatSum([i \in 1..j |-> RInt(ins[i].shape[ax])])[1]

\* C9 as stated: for any inputs agreeing on every axis but the concatenation
\* axis, forward_step produces a tensor, and backprop_inputs applied to it
\* returns one tensor per input, the i-th equal to the i-th input, the split
\* boundaries being the cumulative extents along the axis.
C9_SplitInvertsConcatenate ==
    /\ (ForwardCalled /\ ~DiffersOffAxis(input_shape(catRet.inputs), concat.axis))
           => catRet.raised = "None"
    /\ RoundTrip =>
           /\ Len(catRet.val) = Len(catRet.inputs)
           /\ \A i \in 1..Len(catRet.inputs) : catRet.val[i] = catRet.inputs[i]
           /\ CumulativeBoundaries(catRet.indices, catRet.inputs, concat.axis)

\* C10 as stated: for every configured axis forward_step raises the shape
\* error exactly when some input differs from the first on an axis other than
\* the concatenation axis, and a raising call leaves `concatenated` as it was.
C10_ErrorIffMismatchOffAxis ==
    ForwardCalled =>
        /\ (catRet.raised = "ValueError")
               <=> DiffersOffAxis(input_shape(catRet.inputs), concat.axis)
        /\ catRet.raised = "ValueError" => concat.concatenated = catRet.before

(***************************************************************************)
(* conv_utils: the convolution functions.  A call returns a record whose   *)
(* field raised names the exception that ended it ("None" when it          *)
(* returned).  An argument that is None in the code is <<>> here.          *)
(***************************************************************************)
\* A[k]: the k-th entry of the leading axis, the axis dropped.
TakeAxis0(A, k) ==
    LET shape == Tail(A.shape)
    IN  [shape |-> shape,
         data |-> [e \in 1..Prod(shape) |-> A.data[k * Prod(shape) + e]]]

\* A.reshape(*shape) does not raise: the sizes agree, or one entry is -1 and
\* the size is a multiple of the product of the others.
ReshapeOk(A, shape) ==
    LET known == Prod([i \in 1..Len(shape) |-> IF shape[i] = -1 THEN 1 ELSE shape[i]])
    IN  IF \E i \in 1..Len(shape) : shape[i] = -1
        THEN known > 0 /\ Prod(A.shape) % known = 0
        ELSE Prod(A.shape) = known

\* np.matmul(A, W) of arrays of equal rank whose inner extents agree; leading
\* axes of extent 1 are broadcast.
MatMul(A, W) ==
    LET n == Len(A.shape)
        inner == A.shape[n]
        shape == [i \in 1..n |-> IF i = n THEN W.shape[n]
                                  ELSE IF i = n - 1 THEN A.shape[n - 1]
                                  ELSE Max(A.shape[i], W.shape[i])]
    IN  [shape |-> shape,
         data |-> [e \in 1..Prod(shape) |->
                      LET idx == UnravelIndex(shape, e - 1)
                      IN  RatSum([t \in 1..inner |->
                              RatMul(At(A, [i \in 1..n |->
                                               IF i = n THEN t - 1
                                               ELSE IF i < n - 1 /\ A.shape[i] = 1 THEN 0
                                               ELSE idx[i]]),
                                     At(W, [i \in 1..n |->
                                               IF i = n - 1 THEN t - 1
                                               ELSE IF i = n THEN idx[n]
                                               ELSE IF W.shape[i] = 1 THEN 0
                                               ELSE idx[i]]))])]]

\* The inner extents agree and the leading axes broadcast.
MatMulOk(A, W) ==
    /\ Len(A.shape) = Len(W.shape)
    /\ A.shape[Len(A.shape)] = W.shape[Len(W.shape) - 1]
    /\ \A i \in 1..(Len(A.shape) - 2) :
          A.shape[i] = W.shape[i] \/ A.shape[i] = 1 \/ W.shape[i] = 1

vectorize_kernel_for_conv(kernel, reshape) ==
    Reshape(kernel, IF reshape = <<>> THEN <<-1, kernel.shape[Len(kernel.shape)]>>
                    ELSE reshape)

\* convolve: np.matmul(X, weights[None, ...])
convolve(X, weights) == MatMul(X, Reshape(weights, <<1>> \o weights.shape))

\* _prepare_ip_for_conv.  `X, _ = pad(X, pH, pW)` unpacks the padded array
\* along its leading axis: it raises unless that axis has extent 2, and then
\* X becomes the first channel, a 3-d array.  The windows are then cut from
\* that array; reshaping one of them, or stacking windows of different
\* shapes, raises.
prepare_ip_for_conv(X, kernel_size, stride, padding, vec_reshape) ==
    LET oH == compute_conv_output_dim(X.shape[2], kernel_size[1], padding[1], stride[1])
        oW == compute_conv_output_dim(X.shape[3], kernel_size[2], padding[2], stride[2])
        padded == pad(X, padding[1], padding[2])
        unpackOk == padding = <<0, 0>> \/ padded.shape[1] = 2
        X1 == IF padding = <<0, 0>> THEN X ELSE TakeAxis0(padded, 0)
        reshape == IF vec_reshape = <<>> THEN <<-1, X1.shape[Len(X1.shape)]>>
                   ELSE vec_reshape
        indices == slice_idx_generator(oH, oW, stride[1], stride[2])
        window(k) == SliceArea(X1, indices[k][1], indices[k][1] + kernel_size[1],
                               indices[k][2], indices[k][2] + kernel_size[2],
                               Len(X1.shape) = 3)
        stackOk == /\ \A k \in 1..Len(indices) : ReshapeOk(window(k), reshape)
                   /\ \A k \in 2..Len(indices) :
                         Reshape(window(k), reshape).shape = Reshape(window(1), reshape).shape
    IN  IF unpackOk /\ stackOk
        THEN [raised |-> "None",
              X |-> vectorize_ip_for_conv(X1, kernel_size, stride, <<oH, oW>>, reshape),
              oH |-> oH, oW |-> oW]
        ELSE [raised |-> "ValueError", X |-> NoValue, oH |-> oH, oW |-> oW]

\* convolve2d with return_vec_ip set: (convolution, X).
convolve2d(X, kernel, stride, padding) ==
    LET filters == kernel.shape[4]
        prep == prepare_ip_for_conv(X, <<kernel.shape[2], kernel.shape[3]>>,
                                    stride, padding, <<>>)
        vec_ip == MoveAxis(prep.X, -1, 0)
        weights == vectorize_kernel_for_conv(kernel, <<>>)
        convolution == convolve(vec_ip, weights)
    IN  IF prep.raised # "None" THEN [raised |-> prep.raised, val |-> NoValue]
        ELSE IF ~MatMulOk(vec_ip, Reshape(weights, <<1>> \o weights.shape))
        THEN [raised |-> "ValueError", val |-> NoValue]
        ELSE [raised |-> "None",
              val |-> Reshape(SwapAxes(convolution, 0, 2), <<filters, prep.oH, prep.oW, -1>>),
              vec_ip |-> vec_ip]

\* depthwise_convolve2d: the convolution.  np.moveaxis(convolution, [0, -1],
\* [-1, 1]) orders the axes (ipC, multiplier, windows, batch).
depthwise_convolve2d(X, kernel, stride, padding) ==
    LET ipC == kernel.shape[1]
        kH == kernel.shape[2]
        kW == kernel.shape[3]
        multiplier == kernel.shape[4]
        prep == prepare_ip_for_conv(X, <<kH, kW>>, stride, padding, <<ipC, kH * kW, -1>>)
        vec_ip == Transpose(prep.X, <<3, 1, 0, 2>>)
        weights == vectorize_kernel_for_conv(kernel, <<ipC, -1, multiplier>>)
        convolution == convolve(vec_ip, weights)
    IN  IF prep.raised # "None" THEN [raised |-> prep.raised, val |-> NoValue]
        ELSE IF ~MatMulOk(vec_ip, Reshape(weights, <<1>> \o weights.shape))
        THEN [raised |-> "ValueError", val |-> NoValue]
        ELSE [raised |-> "None",
              val |-> Reshape(Transpose(convolution, <<1, 3, 2, 0>>),
                              <<ipC * multiplier, prep.oH, prep.oW, -1>>)]

\* A.sum(axis=axis) for axis = (0, ..., k - 1), the k leading axes.
SumLeadingAxes(A, axis) ==
    LET k == Len(axis)
        shape == SubSeq(A.shape, k + 1, Len(A.shape))
        size == Prod(shape)
        outer == Prod(SubSeq(A.shape, 1, k))
    IN  [shape |-> shape,
         data |-> [e \in 1..size |->
                      RatSum([o \in 1..outer |-> A.data[(o - 1) * size + e]])]]

\* _backprop_kernel_generic_conv
backprop_kernel_generic_conv(ip, grad, kernel_size, filters, axis) ==
    LET dW == SumLeadingAxes(MatMul(ip, grad), axis)
    IN  Reshape(dW, <<-1, kernel_size[1], kernel_size[2], filters>>)

\* Mutant: the products are summed over the batch axis only.
backprop_kernel_conv2d_batch_only(ip, grad, kernel_size, filters) ==
    backprop_kernel_generic_conv(
        Reshape(ip, ip.shape \o <<1>>),
        Reshape(grad, SubSeq(grad.shape, 1, Len(grad.shape) - 1)
                          \o <<1, grad.shape[Len(grad.shape)]>>),
        kernel_size, filters, <<0>>)

\* backprop_kernel_conv2d: ip[..., None] and grad[..., None, :], summed over
\* the axes (0, 1).
backprop_kernel_conv2d(ip, grad, kernel_size, filters) ==
    backprop_kernel_generic_conv(
        Reshape(ip, ip.shape \o <<1>>),
        Reshape(grad, SubSeq(grad.shape, 1, Len(grad.shape) - 1)
                          \o <<1, grad.shape[Len(grad.shape)]>>),
        kernel_size, filters, <<0, 1>>)

\* The calls exercised: X of shape (C, H, W, B), a kernel of shape
\* (C, kH, kW, F) that fits the padded input, a stride and the same padding
\* on both axes.
ConvShapes ==
    {c \in [C : 1..MaxChannels, B : 1..MaxBatch,
            ip : (1..MaxDim) \X (1..MaxDim),
            kernel_size : (1..MaxKernel) \X (1..MaxKernel),
            F : 1..MaxFilters,
            stride : (1..MaxStride) \X (1..MaxStride),
            padding : {<<p, p>> : p \in 0..MaxConvPad}] :
        /\ c.ip[1] + 2 * c.padding[1] >= c.kernel_size[1]
        /\ c.ip[2] + 2 * c.padding[2] >= c.kernel_size[2]
        /\ c.C * c.B * (c.ip[1] + 2 * c.padding[1]) * (c.ip[2] + 2 * c.padding[2])
               <= MaxConvElems}

ConvKernels(c) ==
    LET shape == <<c.C, c.kernel_size[1], c.kernel_size[2], c.F>>
    IN  {Ramp(shape, 1)}

InitConv ==
    /\ \E c \in ConvShapes :
          \E kernel \in ConvKernels(c) :
              convArgs = [X |-> Mixed(<<c.C, c.ip[1], c.ip[2], c.B>>), kernel |-> kernel,
                          stride |-> c.stride, padding |-> c.padding]
    /\ convRet = NoValue
    /\ ArithIdle
    /\ WinIdle
    /\ PoolIdle
    /\ CatIdle
    /\ BatchIdle

CallConvolve2d ==
    /\ convRet = NoValue
    /\ convRet' = [fn |-> "convolve2d"] @@
                  convolve2d(convArgs.X, convArgs.kernel, convArgs.stride, convArgs.padding)
    /\ UNCHANGED <<convArgs, arithVars, winVars, poolVars, catVars, batchVars>>

CallDepthwiseConvolve2d ==
    /\ convRet = NoValue
    /\ convRet' = [fn |-> "depthwise_convolve2d"] @@
                  depthwise_convolve2d(convArgs.X, convArgs.kernel, convArgs.stride,
                                       convArgs.padding)
    /\ UNCHANGED <<convArgs, arithVars, winVars, poolVars, catVars, batchVars>>

\* The output gradients handed to the kernel gradient, shape (B, windows, F).
ConvGradients ==
    LET shape == <<convRet.vec_ip.shape[1], convRet.vec_ip.shape[2],
                   convArgs.kernel.shape[4]>>
    IN  {Ramp(shape, 1)}

\* backprop_kernel_conv2d on the vectorized input convolve2d returned.
CallBackpropKernelConv2d ==
    /\ convRet.fn = "convolve2d"
    /\ convRet.raised = "None"
    /\ \E grad \in ConvGradients :
          convRet' = [fn |-> "backprop_kernel_conv2d", raised |-> "None",
                      ip |-> convRet.vec_ip, grad |-> grad,
                      val |-> backprop_kernel_conv2d(convRet.vec_ip, grad,
                                  <<convArgs.kernel.shape[2], convArgs.kernel.shape[3]>>,
                                  convArgs.kernel.shape[4])]
    /\ UNCHANGED <<convArgs, arithVars, winVars, poolVars, catVars, batchVars>>

NextConv ==
    \/ CallConvolve2d
    \/ CallDepthwiseConvolve2d
    \/ CallBackpropKernelConv2d

SpecConv == InitConv /\ [][NextConv]_vars

Conv2dCalled == convRet.fn = "convolve2d"

\* The geometry of the call and its zero-padded input.
ConvGeom ==
    [oH |-> compute_conv_output_dim(convArgs.X.shape[2], convArgs.kernel.shape[2],
                                    convArgs.padding[1], convArgs.stride[1]),
     oW |-> compute_conv_output_dim(convArgs.X.shape[3], convArgs.kernel.shape[3],
                                    convArgs.padding[2], convArgs.stride[2]),
     sH |-> convArgs.stride[1], sW |-> convArgs.stride[2],
     kH |-> convArgs.kernel.shape[2], kW |-> convArgs.kernel.shape[3],
     pH |-> convArgs.padding[1], pW |-> convArgs.padding[2]]

\* sum over c, di, dj of Xpad[c, i*sH + di, j*sW + dj, b] * K[c, di, dj, f]
ConvSum(g, Xpad, K, f, i, j, b) ==
    RatSum([t \in 1..(K.shape[1] * g.kH * g.kW) |->
               LET c == (t - 1) \div (g.kH * g.kW)
                   di == ((t - 1) % (g.kH * g.kW)) \div g.kW
                   dj == (t - 1) % g.kW
               IN  RatMul(At(Xpad, <<c, i * g.sH + di, j * g.sW + dj, b>>),
                          At(K, <<c, di, dj, f>>))])

\* C11 as stated: for every input, kernel, stride and padding convolve2d
\* returns a tensor of shape (F, oH, oW, B) whose entry [f, i, j, b] is the sum
\* over c, di, dj of Xpad[c, i*sH + di, j*sW + dj, b] * K[c, di, dj, f]; a
\* single 1x1 kernel of value 1 at stride 1 reproduces the input.
C11_ConvolveIsWindowedSum ==
    Conv2dCalled =>
        LET g == ConvGeom
            X == convArgs.X
            K == convArgs.kernel
            Xpad == pad(X, g.pH, g.pW)
        IN  /\ convRet.raised = "None"
            /\ convRet.val.shape = <<K.shape[4], g.oH, g.oW, X.shape[4]>>
            /\ \A e \in 1..Len(convRet.val.data) :
                  LET idx == UnravelIndex(convRet.val.shape, e - 1)
                  IN  convRet.val.data[e] = ConvSum(g, Xpad, K, idx[1], idx[2], idx[3], idx[4])
            /\ (/\ K = Ones(<<1, 1, 1, 1>>)
                /\ convArgs.stride = <<1, 1>>
                /\ convArgs.padding = <<0, 0>>) => convRet.val = X

DepthwiseCalled == convRet.fn = "depthwise_convolve2d"

\* sum over di, dj of Xpad[c, i*sH + di, j*sW + dj, b] * K[c, di, dj, m]
DepthwiseSum(g, Xpad, K, c, m, i, j, b) ==
    RatSum([t \in 1..(g.kH * g.kW) |->
               LET di == (t - 1) \div g.kW
                   dj == (t - 1) % g.kW
               IN  RatMul(At(Xpad, <<c, i * g.sH + di, j * g.sW + dj, b>>),
                          At(K, <<c, di, dj, m>>))])

\* The tensor A with every channel other than c changed.
OtherChannelsChanged(A, c) ==
    [shape |-> A.shape,
     data |-> [e \in 1..Prod(A.shape) |->
                  IF UnravelIndex(A.shape, e - 1)[1] = c THEN A.data[e]
                  ELSE RatAdd(A.data[e], RInt(1))]]

\* C12 as stated: depthwise_convolve2d returns C*M output channels, channel
\* c*M + m at (i, j, b) being the sum over di, dj of
\* Xpad[c, i*sH + di, j*sW + dj, b] * K[c, di, dj, m], and the channels derived
\* from input channel c keep their values when the other input channels and
\* the other channels' kernels are changed.
C12_DepthwiseKeepsChannelsApart ==
    DepthwiseCalled =>
        LET g == ConvGeom
            X == convArgs.X
            K == convArgs.kernel
            C == K.shape[1]
            M == K.shape[4]
            Xpad == pad(X, g.pH, g.pW)
            out == convRet.val
        IN  /\ convRet.raised = "None"
            /\ out.shape = <<C * M, g.oH, g.oW, X.shape[4]>>
            /\ \A e \in 1..Len(out.data) :
                  LET idx == UnravelIndex(out.shape, e - 1)
                  IN  out.data[e] = DepthwiseSum(g, Xpad, K, idx[1] \div M, idx[1] % M,
                                                 idx[2], idx[3], idx[4])
            /\ \A c \in 0..(C - 1) :
                  LET other == depthwise_convolve2d(OtherChannelsChanged(X, c),
                                   OtherChannelsChanged(K, c), convArgs.stride,
                                   convArgs.padding).val
                  IN  \A e \in 1..Len(out.data) :
                          UnravelIndex(out.shape, e - 1)[1] \div M = c
                              => other.data[e] = out.data[e]

KernelGradientReturned == convRet.fn = "backprop_kernel_conv2d"

\* C13: the kernel gradient has the kernel's shape (C, kH, kW, F) and its
\* entry [c, di, dj, f] is the sum over every batch element b and window k of
\* the entry (c, di, dj) of the flattened input patch of window k, batch b,
\* times the output gradient at window k, filter f, batch b.
C13_KernelGradientSumsOuterProducts ==
    KernelGradientReturned =>
        LET K == convArgs.kernel
            ip == convRet.ip
            grad == convRet.grad
            dW == convRet.val
            B == ip.shape[1]
            windows == ip.shape[2]
        IN  /\ dW.shape = K.shape
            /\ \A e \in 1..Len(dW.data) :
                  LET idx == UnravelIndex(dW.shape, e - 1)
                      at == (idx[1] * K.shape[2] + idx[2]) * K.shape[3] + idx[3]
                  IN  dW.data[e] =
                          RatSum([t \in 1..(B * windows) |->
                                     LET b == (t - 1) \div windows
                                         k == (t - 1) % windows
                                     IN  RatMul(At(ip, <<b, k, at>>),
                                                At(grad, <<b, k, idx[4]>>))])

\* Two batch elements, two windows, a 1x2 kernel with two filters: the
\* gradient of the first kernel entry collects four products.
C13_Witness ==
    /\ KernelGradientReturned
    /\ convRet.ip.shape[1] = 2
    /\ convRet.ip.shape[2] = 2
    /\ convArgs.kernel.shape = <<1, 1, 2, 2>>
    /\ convRet.val.shape = <<1, 1, 2, 2>>
    /\ convRet.val.data[1] =
           RatSum([t \in 1..4 |->
                      RatMul(At(convRet.ip, <<(t - 1) \div 2, (t - 1) % 2, 0>>),
                             At(convRet.grad, <<(t - 1) \div 2, (t - 1) % 2, 0>>))])

\* C14: a padding mode other than `valid` or `same` is rejected when the
\* padding of a layer is computed: compute_conv_padding (called by
\* MaxPooling2D.__init__ and by Conv.output_area with the mode the constructor
\* stored) returns a value only for one of the two modes.
C14_InvalidModeRejected ==
    (PaddingReturned \/ OutputAreaReturned) => arithArgs.mode \in {"valid", "same"}

\* A step that is a call of forward_step / of backprop_step: the input layer's
\* output is left alone and the call is the last one recorded.
ForwardStepTaken == poolIn' = poolIn /\ poolRet'.fn = "forward_step"
BackpropStepTaken == poolIn' = poolIn /\ poolRet'.fn = "backprop_step"

permutation(n) ==
    {perm \in [1..n -> 1..n] : \A i, j \in 1..n : perm[i] = perm[j] => i = j}

\* X[..., start:end] as samples; a slice bound beyond the array is clipped.
SliceSamples(order, start, end) ==
    SubSeq(order, start + 1, IF end > Len(order) THEN Len(order) ELSE end)

BatchArgs ==
    [num_samples : 1..MaxSamples, batch_size : 1..MaxBatchSize, shuffle : BOOLEAN]

InitBatch ==
    /\ batchArgs \in BatchArgs
    /\ batchGen = [pc |-> "created", order |-> [i \in 1..batchArgs.num_samples |-> i],
                   idx |-> 0, yielded |-> <<>>, raised |-> "None"]
    /\ ArithIdle
    /\ WinIdle
    /\ PoolIdle
    /\ CatIdle
    /\ ConvIdle

\* int(np.floor(num_samples / batch_size))
num_full_batches == batchArgs.num_samples \div batchArgs.batch_size

\* The body from the loop header at index idx to the next yield or the end.
LoopFrom(gen, idx) ==
    LET n == batchArgs.num_samples
        size == batchArgs.batch_size
    IN  IF idx < num_full_batches
        THEN [gen EXCEPT !.pc = "loop", !.idx = idx,
                         !.yielded = Append(@, [samples |-> SliceSamples(gen.order, idx * size,
                                                                         (idx + 1) * size),
                                                size |-> size])]
        ELSE IF n % size # 0
             THEN LET start == size * num_full_batches
                  IN  [gen EXCEPT !.pc = "tail",
                                  !.yielded = Append(@, [samples |-> SliceSamples(gen.order, start, n),
                                                         size |-> n - start])]
             ELSE [gen EXCEPT !.pc = "done"]

\* The first next() on the generator: the body runs from its first line to
\* the first yield, to the raise or to the end.
BatchFirstNext ==
    /\ batchGen.pc = "created"
    /\ IF batchArgs.batch_size > batchArgs.num_samples
       THEN batchGen' = [batchGen EXCEPT !.pc = "done", !.raised = "ValueError"]
       ELSE \E perm \in IF batchArgs.shuffle THEN permutation(batchArgs.num_samples)
                        ELSE {batchGen.order} :
                LET gen == [batchGen EXCEPT !.order = perm]
                IN  IF num_full_batches = 1
                    THEN batchGen' = [gen EXCEPT !.pc = "single",
                                          !.yielded = <<[samples |-> gen.order,
                                                         size |-> batchArgs.num_samples]>>]
                    ELSE batchGen' = LoopFrom(gen, 0)
    /\ UNCHANGED <<batchArgs, arithVars, winVars, poolVars, catVars, convVars>>

\* A later next(): the body resumes after the yield it stopped at.
BatchNextAfterYield ==
    /\ batchGen.pc \in {"single", "loop", "tail"}
    /\ batchGen' = IF batchGen.pc = "loop" THEN LoopFrom(batchGen, batchGen.idx + 1)
                   ELSE [batchGen EXCEPT !.pc = "done"]
    /\ UNCHANGED <<batchArgs, arithVars, winVars, poolVars, catVars, convVars>>

NextBatch ==
    \/ BatchFirstNext
    \/ BatchNextAfterYield

SpecBatch == InitBatch /\ [][NextBatch]_vars

\* The samples of the batches yielded so far, in the order yielded.
RECURSIVE YieldedSamples(_)
YieldedSamples(yielded) ==
    IF yielded = <<>> THEN <<>>
    ELSE YieldedSamples(SubSeq(yielded, 1, Len(yielded) - 1))
             \o yielded[Len(yielded)].samples

\* C16: with 1 <= batch_size <= num_samples the batches are consecutive
\* disjoint slices of the (possibly permuted) samples and cover every sample
\* exactly once when the generator ends; every batch holds exactly batch_size
\* samples except possibly the last, which holds num_samples mod batch_size;
\* each reported size is the number of samples of its batch; and with
\* batch_size > num_samples ValueError is raised and nothing is yielded.
C16_BatchesPartitionSamples ==
    LET n == batchArgs.num_samples
        size == batchArgs.batch_size
        yielded == batchGen.yielded
        all == YieldedSamples(yielded)
    IN  /\ size > n =>
              /\ yielded = <<>>
              /\ batchGen.pc = "done" => batchGen.raised = "ValueError"
        /\ size <= n =>
              /\ batchGen.raised = "None"
              /\ batchGen.order \in permutation(n)
              /\ all = SubSeq(batchGen.order, 1, Len(all))
              /\ batchGen.pc = "done" => all = batchGen.order
              /\ \A i \in 1..Len(yielded) :
                    /\ yielded[i].size = Len(yielded[i].samples)
                    /\ \/ Len(yielded[i].samples) = size
                       \/ /\ i = Len(yielded)
                          /\ Len(yielded[i].samples) = n % size

=============================================================================
